---- MODULE Spec2Model ----
(***************************************************************************)
(* A model of StrainFacts' model / estimation / workflow core:             *)
(*   sfacts/workflow.py    chunk iterator, chunked genotype fit,           *)
(*                         single-phase fit, simulate_world                *)
(*   sfacts/estimation.py  estimate_parameters and its scheduled stepper   *)
(*   sfacts/model.py       Structure and ParameterizedModel                *)
(* Each part has its own specification over the shared variables:          *)
(*   SpecChunk (workflow.py chunking), Spec (estimate_parameters),         *)
(*   SpecModel (model.py objects), SpecSeed (seeding), SpecFit (single     *)
(*   phase fit), SpecLive (Spec with the loop's fairness) and SpecCalls    *)
(*   (a process making one estimate_parameters call after another).        *)
(***************************************************************************)
EXTENDS Integers, Sequences, FiniteSets, TLC

VARIABLES
    \* ---- workflow.py: _chunk_start_end_iterator and its two consumers
    gen,              \* the generator frame: total, per, i, position in the body
    caller,           \* "none" | "direct" (list(...)) | "workflow"
    chunks,           \* pairs yielded so far to the direct consumer
    wf,               \* frame of iteratively_fit_genotype_conditioned_on_community
    \* ---- estimation.py: estimate_parameters
    OPTIMIZERS,       \* module-level table: optimizer name -> default kwargs
    param_store,      \* pyro's process-wide parameter store (set of names)
    args,             \* arguments of the running call
    pc,               \* position in estimate_parameters
    i,                \* loop index
    elbo,             \* local `elbo`: [bound, nan, v]
    history,          \* local `history`
    sched,            \* the ReduceLROnPlateau scheduler and its optimizer's lr
    nsteps,           \* svi.step() calls made by this call
    outcome,          \* how the call ended
    lrLowSince,       \* nsteps when lr was first below 1e-6 in this call, -1 if never
    reducedAt,        \* scheduler steps (1-based) at which lr was reduced
    \* ---- model.py: Structure / ParameterizedModel objects
    heap,             \* dict objects, by identity
    models,           \* ParameterizedModel objects: references into heap
    lastOp,           \* the last derivation: kind, source model, new model
    lastCall,         \* the last Structure.__call__: shape, outcome
    \* ---- seeding
    rng,              \* the process-wide random state
    simLog,           \* (seed, world) of each simulate_world call
    estLog,           \* (seed, random state at start) of each estimate call
    \* ---- workflow.py: fit_metagenotype_complex
    fit,              \* the last fit_metagenotype_complex call and its result
    \* ---- the process across estimate_parameters calls
    prev              \* the last ended call: how it ended, the store it left

chunkVars == <<gen, caller, chunks, wf>>
estVars   == <<OPTIMIZERS, param_store, args, pc, i, elbo, history, sched,
               nsteps, outcome, lrLowSince, reducedAt>>
modelVars == <<heap, models, lastOp, lastCall>>
seedVars  == <<rng, simLog, estLog>>
fitVars   == <<fit>>
procVars  == <<prev>>
vars      == <<chunkVars, estVars, modelVars, seedVars, fitVars, procVars>>

\* ------------------------------------------------------------------ bounds
MaxTotal == 5        \* positions of a metagenotype / total of a direct call
MaxPer == 6          \* requested chunk size (may exceed the total)

\* -------------------------------------------------------------- utilities
Min(a, b) == IF a < b THEN a ELSE b

Range(n) == [k \in 1..n |-> k - 1]                  \* Python's range(n)

Update(d, kv) ==                                     \* dict.update, by value
    [k \in DOMAIN d \cup DOMAIN kv |-> IF k \in DOMAIN kv THEN kv[k] ELSE d[k]]

RECURSIVE Concat(_)
Concat(ss) == IF ss = <<>> THEN <<>> ELSE Head(ss) \o Concat(Tail(ss))

\* =========================================================================
\* model.py: Structure and ParameterizedModel
\* =========================================================================
MaxModels == 3       \* ParameterizedModel objects alive in one run

\* The dims of the Structure under study (Structure.__init__ stores them).
StructureDims == <<"sample", "position", "strain">>
DimSet == {StructureDims[k] : k \in 1..Len(StructureDims)}

\* A coordinate argument is an int (a size) or a sequence of labels.
Size(n) == [isInt |-> TRUE, n |-> n, labels |-> <<>>]
Lab(s) == [isInt |-> FALSE, n |-> 0, labels |-> s]

\* ParameterizedModel._coords_or_range
CoordsOrRange(c) == IF c.isInt THEN Lab(Range(c.n)) ELSE c

\* The heap holds dict objects; a reference is an index into it.  Object 1 is
\* the Structure's default_hyperparameters.
DefaultsRef == 1
DefaultHyperparameters == ("alpha" :> 1)
EmptyDict == [k \in {} |-> 0]

\* new = d.copy(); new.update(kv): a fresh object, the original untouched.
UpdateInPlace(h, r, kv) ==
    [heap |-> [h EXCEPT ![r] = Update(@, kv)], ref |-> r]
CopyThenUpdate(h, r, kv) ==
    [heap |-> Append(h, Update(h[r], kv)), ref |-> Len(h) + 1]

\* Line 117: self.coords is built anew, one entry per dim of the structure.
KeepCoords(c) == [k \in DOMAIN c |-> CoordsOrRange(c[k])]
RebuildCoords(c) == [k \in DimSet |-> CoordsOrRange(c[k])]

\* ParameterizedModel.__init__ on dict objects coordsRef, hpRef, dataRef:
\* coords is rebuilt over the structure's dims (KeyError when one is missing),
\* hyperparameters is a copy of the defaults updated with the argument, and
\* data is kept by reference.
ModelInit(h, ms, coordsRef, hpRef, dataRef) ==
    IF ~(DimSet \subseteq DOMAIN h[coordsRef])
    THEN [heap |-> h, models |-> ms, err |-> "KeyError"]
    ELSE LET h1 == Append(h, RebuildCoords(h[coordsRef]))
             c  == Len(h) + 1
             t  == CopyThenUpdate(h1, DefaultsRef, h1[hpRef])
         IN [heap |-> t.heap,
             models |-> Append(ms, [coords |-> c, hyperparameters |-> t.ref,
                                    data |-> dataRef]),
             err |-> "none"]

\* ParameterizedModel.with_hyperparameters
WithHyperparameters(h, ms, m, kv) ==
    LET t == CopyThenUpdate(h, ms[m].hyperparameters, kv)
    IN ModelInit(t.heap, ms, ms[m].coords, t.ref, ms[m].data)

\* ParameterizedModel.with_amended_coords
WithAmendedCoords(h, ms, m, kv) ==
    LET t == CopyThenUpdate(h, ms[m].coords, kv)
    IN ModelInit(t.heap, ms, t.ref, ms[m].hyperparameters, ms[m].data)

\* ParameterizedModel.condition
Condition(h, ms, m, kv) ==
    LET t == CopyThenUpdate(h, ms[m].data, kv)
    IN ModelInit(t.heap, ms, ms[m].coords, ms[m].hyperparameters, t.ref)

\* ParameterizedModel.sizes and .shape, in the structure's dimension order
Sizes(h, ms, m) == [k \in DimSet |-> Len(h[ms[m].coords][k].labels)]
Shape(h, ms, m) == [d \in 1..Len(StructureDims) |-> Sizes(h, ms, m)[StructureDims[d]]]

\* The items of the sizes dict in insertion order: the comprehension of line
\* 126 runs over self.structure.dims.
SizesItems(h, ms, m) ==
    [d \in 1..Len(StructureDims) |->
        <<StructureDims[d], Len(h[ms[m].coords][StructureDims[d]].labels)>>]

\* Structure.__call__: the shape-length assertion, then the generative call.
StructureCallUnchecked(shape) ==
    [shape |-> shape, error |-> "none", invoked |-> TRUE, by |-> "none"]
StructureCall(shape) ==
    IF Len(shape) # Len(StructureDims)
    THEN [shape |-> shape, error |-> "AssertionError", invoked |-> FALSE, by |-> "none"]
    ELSE [shape |-> shape, error |-> "none", invoked |-> TRUE, by |-> "none"]

\* What a model looks like to a reader of .coords/.hyperparameters/.data
View(h, ms, m) ==
    [coords |-> h[ms[m].coords],
     hyperparameters |-> h[ms[m].hyperparameters],
     data |-> h[ms[m].data]]

\* ---- inputs
CoordsArgs ==
    { [sample |-> Size(2), position |-> Lab(<<7, 8, 9>>), strain |-> Size(1),
       allele |-> Lab(<<0, 1>>)],
      [sample |-> Size(2), position |-> Size(2)] }
HyperKw == { ("alpha" :> 2), ("rho" :> 3) }
CoordsKw == { ("position" :> Size(3)), ("position" :> Lab(<<7, 8>>)),
              ("extra" :> Size(1)) }
DataKw == { ("y" :> 1), ("y" :> 2) }
Shapes == { [k \in 1..n |-> 2] : n \in 0..(Len(StructureDims) + 1) }

NoOp == [kind |-> "none", src |-> 0, new |-> 0, err |-> "none"]
NoCall == [shape |-> <<>>, error |-> "none", invoked |-> FALSE, by |-> "none"]

ModelIdle ==
    /\ heap = <<DefaultHyperparameters>>
    /\ models = <<>>
    /\ lastOp = NoOp
    /\ lastCall = NoCall

\* A call that raised leaves no object behind: its temporaries are freed.
Derived(kind, m, r) ==
    /\ heap' = IF r.err = "none" THEN r.heap ELSE heap
    /\ models' = r.models
    /\ lastOp' = [kind |-> kind, src |-> m,
                  new |-> IF r.err = "none" THEN Len(r.models) ELSE 0,
                  err |-> r.err]
    /\ UNCHANGED lastCall

\* ParameterizedModel(structure, coords, hyperparameters=..., data=...): the
\* caller's argument dicts are objects of their own; None data becomes a new {}.
Construct ==
    /\ Len(models) < MaxModels
    /\ \E c \in CoordsArgs, hp \in {EmptyDict}, d \in {EmptyDict, ("y" :> 1)} :
          LET h1 == heap \o <<c, hp, d>>
              n  == Len(heap)
          IN Derived("construct", 0, ModelInit(h1, models, n + 1, n + 2, n + 3))

DoWithHyperparameters ==
    /\ Len(models) < MaxModels
    /\ \E m \in 1..Len(models), kv \in HyperKw :
          Derived("with_hyperparameters", m, WithHyperparameters(heap, models, m, kv))

DoWithAmendedCoords ==
    /\ Len(models) < MaxModels
    /\ \E m \in 1..Len(models), kv \in CoordsKw :
          Derived("with_amended_coords", m, WithAmendedCoords(heap, models, m, kv))

DoCondition ==
    /\ Len(models) < MaxModels
    /\ \E m \in 1..Len(models), kv \in DataKw :
          Derived("condition", m, Condition(heap, models, m, kv))

\* A direct Structure.__call__(shape, data, hyperparameters, unit)
CallStructure ==
    /\ \E shape \in Shapes :
          lastCall' = [StructureCall(shape) EXCEPT !.by = "direct"]
    /\ UNCHANGED <<heap, models, lastOp>>

\* ParameterizedModel.__call__: the structure is called with self.shape
CallModel ==
    /\ \E m \in 1..Len(models) :
          lastCall' = [StructureCall(Shape(heap, models, m)) EXCEPT !.by = "model"]
    /\ UNCHANGED <<heap, models, lastOp>>

\* =========================================================================
\* workflow.py: _chunk_start_end_iterator and the chunked genotype fit
\* =========================================================================
\* The generator frame.  `bound` says whether the local `i` has been assigned;
\* `k` is the position of the range iterator; phase "tail" is after the
\* remainder chunk was yielded.
GenNone == [state |-> "none", total |-> 0, per |-> 0, bound |-> FALSE,
            i |-> 0, k |-> 0, phase |-> "loop"]
GenStart(total, per) ==
    [state |-> "running", total |-> total, per |-> per, bound |-> FALSE,
     i |-> 0, k |-> 0, phase |-> "loop"]

\* One next() of _chunk_start_end_iterator(total, per): run to the next yield,
\* to the end, or to the error of reading the unassigned `i`.
ChunkNextNoRemainder(g) ==
    IF g.phase = "loop" /\ g.k < g.total \div g.per
    THEN [kind |-> "yield", start |-> g.per * g.k, end |-> g.per * (g.k + 1),
          gen |-> [g EXCEPT !.bound = TRUE, !.i = g.k, !.k = g.k + 1]]
    ELSE IF g.phase = "loop" /\ ~g.bound
    THEN [kind |-> "raise", start |-> 0, end |-> 0,
          gen |-> [g EXCEPT !.state = "UnboundLocalError"]]
    ELSE [kind |-> "stop", start |-> 0, end |-> 0,
          gen |-> [g EXCEPT !.state = "exhausted"]]
ChunkNext(g) ==
    IF g.phase = "loop" /\ g.k < g.total \div g.per
    THEN [kind |-> "yield", start |-> g.per * g.k, end |-> g.per * (g.k + 1),
          gen |-> [g EXCEPT !.bound = TRUE, !.i = g.k, !.k = g.k + 1]]
    ELSE IF g.phase = "loop" /\ ~g.bound
    THEN [kind |-> "raise", start |-> 0, end |-> 0,
          gen |-> [g EXCEPT !.state = "UnboundLocalError"]]
    ELSE IF g.phase = "loop" /\ (g.i + 1) * g.per < g.total
    THEN [kind |-> "yield", start |-> (g.i + 1) * g.per, end |-> g.total,
          gen |-> [g EXCEPT !.phase = "tail"]]
    ELSE [kind |-> "stop", start |-> 0, end |-> 0,
          gen |-> [g EXCEPT !.state = "exhausted"]]

\* The position coordinate of a metagenotype with P positions: labels that are
\* not their own index, ascending or descending.
MetagenotypePositions(P) ==
    { [k \in 1..P |-> 10 + k], [k \in 1..P |-> P - k] }

\* How one estimate_parameters call made by a workflow ends.
EstimateOutcomes == {"ok", "RuntimeError", "KeyboardInterrupt"}

WfNone == [pc |-> "none", position |-> <<>>, requested |-> 0,
           nposition |-> 0, pmodel |-> 0,
           genotype_chunks |-> <<>>, history_list |-> <<>>, est_list |-> 0,
           estCalls |-> <<>>, genotype |-> <<>>, error |-> "none"]

ChunkIdle ==
    /\ gen = GenNone
    /\ caller = "none"
    /\ chunks = <<>>
    /\ wf = WfNone

\* list(_chunk_start_end_iterator(total, per))
CallChunkIterator ==
    /\ caller = "none"
    /\ \E total \in 1..MaxTotal, per \in 1..MaxPer :
          gen' = GenStart(total, per)
    /\ caller' = "direct"
    /\ UNCHANGED <<chunks, wf, modelVars>>

DirectNext ==
    /\ caller = "direct"
    /\ gen.state = "running"
    /\ LET r == ChunkNext(gen)
       IN /\ gen' = r.gen
          /\ chunks' = IF r.kind = "yield"
                       THEN Append(chunks, <<r.start, r.end>>) ELSE chunks
    /\ UNCHANGED <<caller, wf, modelVars>>

\* iteratively_fit_genotype_conditioned_on_community, up to the chunk loop:
\* nposition is capped by the number of positions and the base model is built
\* with position=range(nposition) and the community as data.
CallIterativelyFit ==
    /\ caller = "none"
    /\ \E P \in 1..MaxTotal, np \in 1..MaxPer :
       \E position \in MetagenotypePositions(P) :
          LET nposition == Min(np, P)
              c  == [sample |-> Lab(<<0, 1>>), position |-> Lab(Range(nposition)),
                     allele |-> Lab(<<0, 1>>), strain |-> Lab(<<0>>)]
              h1 == heap \o <<c, EmptyDict, ("pi" :> 1)>>
              n  == Len(heap)
              r  == ModelInit(h1, models, n + 1, n + 2, n + 3)
          IN /\ heap' = r.heap
             /\ models' = r.models
             /\ wf' = [WfNone EXCEPT !.pc = "iterating", !.position = position,
                                     !.requested = np,
                                     !.nposition = nposition,
                                     !.pmodel = Len(r.models)]
             /\ gen' = GenStart(Len(position), nposition)
    /\ caller' = "workflow"
    /\ UNCHANGED <<chunks, lastOp, lastCall>>

\* One turn of the chunk loop: the next chunk from the iterator, the chunk's
\* model derived from the base model, one estimate_parameters call, and the
\* three appends; or the end of the loop.
FitChunk ==
    /\ caller = "workflow"
    /\ wf.pc = "iterating"
    /\ LET r == ChunkNext(gen)
       IN /\ gen' = r.gen
          /\ IF r.kind = "yield"
             THEN \E res \in EstimateOutcomes :
                    LET labels == SubSeq(wf.position, r.start + 1, r.end)
                        a == WithAmendedCoords(heap, models, wf.pmodel,
                                               ("position" :> Lab(labels)))
                        c == Condition(a.heap, a.models, Len(a.models),
                                       ("y" :> 1) @@ ("m" :> 2))
                        fitted == Len(c.models)
                    IN /\ heap' = c.heap
                       /\ models' = c.models
                       /\ wf' = IF res = "ok"
                                THEN [wf EXCEPT
                                        !.estCalls = Append(@, <<r.start, r.end>>),
                                        !.genotype_chunks =
                                            Append(@, c.heap[c.models[fitted].coords]
                                                          ["position"].labels),
                                        !.history_list = Append(@, Len(wf.estCalls) + 1),
                                        !.est_list = @ + 1]
                                ELSE [wf EXCEPT
                                        !.estCalls = Append(@, <<r.start, r.end>>),
                                        !.pc = "raised", !.error = res]
             ELSE /\ wf' = IF r.kind = "stop"
                           THEN [wf EXCEPT !.pc = "concat"]
                           ELSE [wf EXCEPT !.pc = "raised",
                                           !.error = "UnboundLocalError"]
                  /\ UNCHANGED <<heap, models>>
    /\ UNCHANGED <<caller, chunks, lastOp, lastCall>>

\* xr.concat(genotype_chunks, dim="position") and the reassembled World
ConcatenateChunks ==
    /\ caller = "workflow"
    /\ wf.pc = "concat"
    /\ wf' = [wf EXCEPT !.pc = "returned",
                        !.genotype = Concat(wf.genotype_chunks),
                        !.est_list = @ + 1]
    /\ UNCHANGED <<gen, caller, chunks, modelVars>>

\* =========================================================================
\* estimation.py: get_scheduled_optimization_stepper and estimate_parameters
\* =========================================================================
MaxIter == 6         \* largest maxiter of a call
MaxLagA == 2         \* largest lagA
MaxLagB == 1         \* largest lagB (the scheduler's patience and cooldown)
MaxElbo == 2         \* ELBO values are 1..MaxElbo, or NaN

\* Learning rates are exact fractions num/den.
Lr(n, d) == [num |-> n, den |-> d]
LrMul(a, b) == [num |-> a.num * b.num, den |-> a.den * b.den]
LrLess(a, b) == a.num * b.den < b.num * a.den

DefaultLrDen == 10           \* lr=0.1, the default of each optimizer
FactorDen == 2               \* factor=0.5
ThresholdDen == 1000000      \* learning_rate < 1e-6

OptimizerNames == {"Adam", "Adamax", "Adadelta", "Adagrad", "AdamW", "RMSprop"}

\* The module-level table as built at import.
OptimizersAtImport == [n \in OptimizerNames |-> ("lr" :> Lr(1, DefaultLrDen))]

\* An ELBO value: a number or NaN.  `bound` is whether the local `elbo` has
\* been assigned in this call.
Num(v) == [nan |-> FALSE, v |-> v]
NaN == [nan |-> TRUE, v |-> 0]
ElboValues == {Num(v) : v \in 1..MaxElbo} \cup {NaN}
Unassigned == [bound |-> FALSE, val |-> Num(0)]

\* optimizer_kwargs: None, or a dict of options
NoKwargs == [given |-> FALSE, kw |-> EmptyDict]
Kwargs(d) == [given |-> TRUE, kw |-> d]
OptimizerKwargsArgs ==
    { NoKwargs, Kwargs("lr" :> Lr(1, 1000000)), Kwargs("lr" :> Lr(1, 500000)) }

\* get_scheduled_optimization_stepper, lines 48-51: the options the optimizer
\* is built with, and the table afterwards.  _optimizer_kwargs is the table's
\* own dict, so update() writes into the table.
OptimizerOptions(table, optimizer_name, optimizer_kwargs) ==
    LET _optimizer_kwargs ==
            IF optimizer_kwargs.given
            THEN Update(table[optimizer_name], optimizer_kwargs.kw)
            ELSE table[optimizer_name]
    IN [optim_args |-> _optimizer_kwargs,
        table |-> [table EXCEPT ![optimizer_name] = _optimizer_kwargs]]

\* The scheduler's settings as estimate_parameters passes them (lines 108-118)
\* and as get_scheduled_optimization_stepper fixes them (lines 54-65).
SchedulerArgsFactorTenth(lagB) ==
    [patience |-> lagB, cooldown |-> lagB, factor |-> Lr(1, 10),
     threshold |-> 0, min_lr |-> 0, eps |-> 0]
SchedulerArgs(lagB) ==
    [patience |-> lagB, cooldown |-> lagB, factor |-> Lr(1, FactorDen),
     threshold |-> 0, min_lr |-> 0, eps |-> 0]

\* A new ReduceLROnPlateau over an optimizer with learning rate lr.
NewScheduler(lr, cfg) ==
    [lr |-> lr, patience |-> cfg.patience, cooldown |-> cfg.cooldown,
     factor |-> cfg.factor, bestInf |-> TRUE, best |-> 0,
     num_bad_epochs |-> 0, cooldown_counter |-> 0]
NoScheduler == NewScheduler(Lr(1, DefaultLrDen), SchedulerArgs(0))

\* scheduler.step(elbo): ReduceLROnPlateau in mode "min" with threshold 0,
\* min_lr 0 and eps 0.  A NaN is never better than the best.
SchedulerStep(s, e) ==
    LET better == ~e.nan /\ (s.bestInf \/ e.v < s.best)
        s1 == IF better
              THEN [s EXCEPT !.best = e.v, !.bestInf = FALSE, !.num_bad_epochs = 0]
              ELSE [s EXCEPT !.num_bad_epochs = @ + 1]
        s2 == IF s1.cooldown_counter > 0
              THEN [s1 EXCEPT !.cooldown_counter = @ - 1, !.num_bad_epochs = 0]
              ELSE s1
    IN IF s2.num_bad_epochs > s2.patience
       THEN [s2 EXCEPT !.lr = LrMul(@, s2.factor),
                       !.cooldown_counter = s2.cooldown,
                       !.num_bad_epochs = 0]
       ELSE s2

\* Lines 127-132: the NaN test, then the append.
AppendThenNanCheck(e, hist) == [raise |-> e.nan, history |-> Append(hist, e)]
NanCheckThenAppend(e, hist) ==
    IF e.nan THEN [raise |-> TRUE, history |-> hist]
             ELSE [raise |-> FALSE, history |-> Append(hist, e)]

\* Lines 135-159: the learning rate is read and tested only when i % lagA == 0.
NeverBreak(idx, lagA, lr) == FALSE
BreakCondition(idx, lagA, lr) ==
    idx % lagA = 0 /\ LrLess(lr, Lr(1, ThresholdDen))

NoArgs == [maxiter |-> 0, lagA |-> 1, lagB |-> 0,
           catch_keyboard_interrupt |-> FALSE,
           optimizer_name |-> "Adamax", optimizer_kwargs |-> NoKwargs]

EstIdle ==
    /\ OPTIMIZERS = OptimizersAtImport
    /\ param_store = {}
    /\ args = NoArgs
    /\ pc = "idle"
    /\ i = -1
    /\ elbo = Unassigned
    /\ history = <<>>
    /\ sched = NoScheduler
    /\ nsteps = 0
    /\ outcome = "none"
    /\ lrLowSince = -1
    /\ reducedAt = <<>>

\* estimate_parameters, lines 90-121: seed (None here, so the random state is
\* left alone), loss, clear_param_store, guide, the scheduled stepper, and the
\* empty history.
\* pyro.clear_param_store(), line 100
KeepParamStore(store) == store
ClearParamStore(store) == {}

CallEstimateWith(maxiters, lagAs, lagBs, kwargs, names) ==
    /\ pc = "idle"
    /\ \E maxiter \in maxiters, lagA \in lagAs, lagB \in lagBs,
          catch \in BOOLEAN, kw \in kwargs, name \in names :
          LET o == OptimizerOptions(OPTIMIZERS, name, kw)
          IN /\ args' = [maxiter |-> maxiter, lagA |-> lagA, lagB |-> lagB,
                         catch_keyboard_interrupt |-> catch,
                         optimizer_name |-> name, optimizer_kwargs |-> kw]
             /\ OPTIMIZERS' = o.table
             /\ sched' = NewScheduler(o.optim_args["lr"], SchedulerArgs(lagB))
    /\ param_store' = ClearParamStore(param_store)
    /\ history' = <<>>
    /\ pc' = "for"
    /\ UNCHANGED <<i, elbo, nsteps, outcome, lrLowSince, reducedAt>>

CallEstimate ==
    CallEstimateWith(0..MaxIter, 1..MaxLagA, 0..MaxLagB, OptimizerKwargsArgs,
                     {"Adamax"})

\* Line 121/123: range(maxiter) has a next index after idx.
RangeHasNextInclusive(idx, maxiter) == idx + 1 <= maxiter
RangeHasNext(idx, maxiter) == idx + 1 < maxiter

\* for i in pbar: the next index, or the end of the range.
LoopNext ==
    /\ pc = "for"
    /\ IF RangeHasNext(i, args.maxiter)
       THEN /\ i' = i + 1
            /\ pc' = "svi"
            /\ UNCHANGED outcome
       ELSE /\ pc' = "after"
            /\ outcome' = "Exhausted"
            /\ UNCHANGED i
    /\ UNCHANGED <<OPTIMIZERS, param_store, args, elbo, history, sched, nsteps,
                   lrLowSince, reducedAt>>

\* elbo = svi.step(): one optimization step; the guide's parameter is in the
\* store from the first step on.
SviStep ==
    /\ pc = "svi"
    /\ \E e \in ElboValues : elbo' = [bound |-> TRUE, val |-> e]
    /\ nsteps' = nsteps + 1
    /\ param_store' = param_store \cup {"AutoLaplaceApproximation.loc"}
    /\ pc' = "sched"
    /\ UNCHANGED <<OPTIMIZERS, args, i, history, sched, outcome, lrLowSince,
                   reducedAt>>

\* scheduler.step(elbo)
SchedStep ==
    /\ pc = "sched"
    /\ sched' = SchedulerStep(sched, elbo.val)
    /\ reducedAt' = IF sched'.lr # sched.lr THEN Append(reducedAt, nsteps)
                    ELSE reducedAt
    /\ lrLowSince' = IF /\ lrLowSince = -1
                        /\ ~LrLess(sched.lr, Lr(1, 1000000))
                        /\ LrLess(sched'.lr, Lr(1, 1000000))
                     THEN nsteps ELSE lrLowSince
    /\ pc' = "check"
    /\ UNCHANGED <<OPTIMIZERS, param_store, args, i, elbo, history, nsteps,
                   outcome>>

\* Lines 127-159: NaN test, history.append, and every lagA steps the report and
\* the convergence test.
CheckAndReport ==
    /\ pc = "check"
    /\ LET r == NanCheckThenAppend(elbo.val, history)
       IN /\ history' = r.history
          /\ IF r.raise
             THEN pc' = "raised" /\ outcome' = "RuntimeError"
             ELSE IF BreakCondition(i, args.lagA, sched.lr)
             THEN pc' = "after" /\ outcome' = "Converged"
             ELSE pc' = "for" /\ UNCHANGED outcome
    /\ UNCHANGED <<OPTIMIZERS, param_store, args, i, elbo, sched, nsteps,
                   lrLowSince, reducedAt>>

\* Lines 160-166: a KeyboardInterrupt anywhere inside the try.  The handler
\* formats `elbo` before it looks at catch_keyboard_interrupt.
Interrupt ==
    /\ pc \in {"for", "svi", "sched", "check"}
    /\ IF ~elbo.bound
       THEN pc' = "raised" /\ outcome' = "UnboundLocalError"
       ELSE IF args.catch_keyboard_interrupt
       THEN pc' = "after" /\ outcome' = "Interrupted"
       ELSE pc' = "raised" /\ outcome' = "KeyboardInterrupt"
    /\ UNCHANGED <<OPTIMIZERS, param_store, args, i, elbo, history, sched,
                   nsteps, lrLowSince, reducedAt>>

\* Lines 167-185: the posterior sample and model.format_world(est), history.
Finish ==
    /\ pc = "after"
    /\ pc' = "returned"
    /\ UNCHANGED <<OPTIMIZERS, param_store, args, i, elbo, history, sched,
                   nsteps, outcome, lrLowSince, reducedAt>>

\* =========================================================================
\* Seeding: set_random_seed, simulate, simulate_world, estimate_parameters
\* =========================================================================
RngMod == 4          \* the random state is one of 0..RngMod-1
MaxSeed == 1         \* explicit seeds are 0..MaxSeed
MaxLog == 2          \* calls recorded per log

NoSeed == -1                                   \* seed=None
Seeds == {NoSeed} \cup 0..MaxSeed

\* sfacts.pyro_util.set_random_seed: an explicit seed fixes the random state;
\* None leaves the process state as it is (and warns).
SetRandomSeed(r, seed) == IF seed = NoSeed THEN r ELSE seed % RngMod

\* One draw of pyro.infer.Predictive: the sample is a function of the random
\* state, which advances.
Sample(r) == r
Advance(r) == (r + 1) % RngMod

\* ParameterizedModel.simulate(n=1, seed=None), lines 224-228
Simulate(r, seed) ==
    LET r1 == SetRandomSeed(r, seed)
    IN [obs |-> Sample(r1), rng |-> Advance(r1)]

\* ParameterizedModel.simulate_world(seed=None), lines 230-231: simulate is
\* called with n=1 only, so its seed is None whatever seed was given.
SimulateWorld(r, seed) == Simulate(r, NoSeed)

SeedIdle ==
    /\ simLog = <<>>
    /\ estLog = <<>>

\* workflow.simulate_world(structure, sizes, hyperparameters, seed=seed): the
\* model is built and model.simulate_world(seed=seed) is called.
WorkflowSimulateWorld ==
    /\ Len(simLog) < MaxLog
    /\ \E seed \in Seeds :
          LET s == SimulateWorld(rng, seed)
          IN /\ rng' = s.rng
             /\ simLog' = Append(simLog, [via |-> "workflow.simulate_world",
                                          seed |-> seed, world |-> s.obs])
    /\ UNCHANGED estLog

\* ParameterizedModel.simulate_world(seed=seed) called directly
ModelSimulateWorld ==
    /\ Len(simLog) < MaxLog
    /\ \E seed \in Seeds :
          LET s == SimulateWorld(rng, seed)
          IN /\ rng' = s.rng
             /\ simLog' = Append(simLog, [via |-> "model.simulate_world",
                                          seed |-> seed, world |-> s.obs])
    /\ UNCHANGED estLog

\* ParameterizedModel.simulate(n=1, seed=seed) called directly
ModelSimulate ==
    /\ Len(simLog) < MaxLog
    /\ \E seed \in Seeds :
          LET s == Simulate(rng, seed)
          IN /\ rng' = s.rng
             /\ simLog' = Append(simLog, [via |-> "model.simulate",
                                          seed |-> seed, world |-> s.obs])
    /\ UNCHANGED estLog

\* estimate_parameters(..., seed=seed), line 93: the random state the fit
\* starts from.
EstimateSeeded ==
    /\ Len(estLog) < MaxLog
    /\ \E seed \in Seeds :
          /\ rng' = SetRandomSeed(rng, seed)
          /\ estLog' = Append(estLog, [seed |-> seed, start |-> rng'])
    /\ UNCHANGED simLog

\* Any other consumer of the process's random state
OtherDraw ==
    /\ rng' = Advance(rng)
    /\ UNCHANGED <<simLog, estLog>>

\* =========================================================================
\* workflow.py: fit_metagenotype_complex
\* =========================================================================
\* The keyword parameters of estimate_parameters (lines 74-89); it takes no
\* **kwargs.
EstimateParametersKeywords ==
    {"model", "dtype", "device", "initialize_params", "jit", "maxiter", "lagA",
     "lagB", "optimizer_name", "optimizer_kwargs", "quiet",
     "ignore_jit_warnings", "seed", "catch_keyboard_interrupt"}

\* The keywords fit_metagenotype_complex writes out in its call (lines 155-164);
\* pmodel is passed by position, as `model`.
FitExplicitKeywords ==
    {"quiet", "device", "dtype", "anneal_hyperparameters", "annealiter",
     "initialize_params"}

\* Names a caller may put in estimation_kwargs
EstimationKwargNames == {"maxiter", "seed", "lagA", "jit", "quiet", "bogus"}

\* Python's binding of a call f(pmodel, k1=..., **extra) to a signature with
\* the parameters `accepted` and no **kwargs.
BindCall(explicit, extra, accepted) ==
    IF explicit \cap extra # {} \/ "model" \in extra
         \/ ~((explicit \cup extra) \subseteq accepted)
    THEN "TypeError" ELSE "ok"

NoFit == [pc |-> "none", nmf_init |-> FALSE, estimation_kwargs |-> {},
          passed |-> {}, conditioned |-> FALSE, estimate_calls |-> 0,
          est_list |-> 0, history_list |-> 0, error |-> "none"]

\* fit_metagenotype_complex as a whole: the optional NMF warm start, the
\* conditioned model, the one estimate_parameters call, the two appends.
\* nmf and est are how the NMF collaborator and the estimation end.
FitMetagenotypeComplex(nmf_init, estimation_kwargs, nmf, est) ==
    LET passed == FitExplicitKeywords \cup estimation_kwargs
        bind == BindCall(FitExplicitKeywords, estimation_kwargs,
                         EstimateParametersKeywords)
        base == [NoFit EXCEPT !.nmf_init = nmf_init,
                              !.estimation_kwargs = estimation_kwargs]
    IN IF nmf_init /\ nmf # "ok"
       THEN [base EXCEPT !.pc = "raised", !.error = nmf]
       ELSE IF bind # "ok"
       THEN [base EXCEPT !.pc = "raised", !.error = bind, !.passed = passed,
                         !.conditioned = TRUE]
       ELSE IF est # "ok"
       THEN [base EXCEPT !.pc = "raised", !.error = est, !.passed = passed,
                         !.conditioned = TRUE, !.estimate_calls = 1]
       ELSE [base EXCEPT !.pc = "returned", !.passed = passed,
                         !.conditioned = TRUE, !.estimate_calls = 1,
                         !.est_list = 1, !.history_list = 1]

FitIdle == fit = NoFit

CallFitMetagenotypeComplex ==
    \E nmf_init \in BOOLEAN, estimation_kwargs \in SUBSET EstimationKwargNames,
       nmf \in {"ok", "NMFError"}, est \in EstimateOutcomes :
          fit' = FitMetagenotypeComplex(nmf_init, estimation_kwargs, nmf, est)

\* =========================================================================
\* A process that calls estimate_parameters again and again
\* =========================================================================
MaxCallIter == 2     \* largest maxiter of a call in a sequence of calls

\* The calls of a sequence: any of three of the optimizers, with no options,
\* a learning rate, or an option the defaults do not have.
CallOptimizerNames == {"Adam", "Adamax", "RMSprop"}
CallOptimizerKwargsArgs ==
    { NoKwargs, Kwargs("lr" :> Lr(1, 1000000)),
      Kwargs("weight_decay" :> Lr(1, 100)) }

NoPrev == [outcome |-> "none", store |-> {}]
ProcIdle == prev = NoPrev

CallEstimateAgain ==
    /\ CallEstimateWith(0..MaxCallIter, {1}, {0}, CallOptimizerKwargsArgs,
                        CallOptimizerNames)
    /\ UNCHANGED prev

\* The call has returned or raised and control is back with the caller (the
\* chunk loop, or any code that goes on after catching the error): the call's
\* locals are gone, the module-level table and the parameter store stay.
EndCall ==
    /\ pc \in {"returned", "raised"}
    /\ prev' = [outcome |-> outcome, store |-> param_store]
    /\ args' = NoArgs
    /\ pc' = "idle"
    /\ i' = -1
    /\ elbo' = Unassigned
    /\ history' = <<>>
    /\ sched' = NoScheduler
    /\ nsteps' = 0
    /\ outcome' = "none"
    /\ lrLowSince' = -1
    /\ reducedAt' = <<>>
    /\ UNCHANGED <<OPTIMIZERS, param_store>>

\* =========================================================================
\* Specifications
\* =========================================================================
Init ==
    /\ EstIdle /\ ChunkIdle /\ ModelIdle /\ SeedIdle /\ FitIdle /\ ProcIdle
    /\ rng = 0

Next ==
    \/ (CallEstimate /\ UNCHANGED <<chunkVars, modelVars, seedVars, fitVars, procVars>>)
    \/ (LoopNext /\ UNCHANGED <<chunkVars, modelVars, seedVars, fitVars, procVars>>)
    \/ (SviStep /\ UNCHANGED <<chunkVars, modelVars, seedVars, fitVars, procVars>>)
    \/ (SchedStep /\ UNCHANGED <<chunkVars, modelVars, seedVars, fitVars, procVars>>)
    \/ (CheckAndReport /\ UNCHANGED <<chunkVars, modelVars, seedVars, fitVars, procVars>>)
    \/ (Interrupt /\ UNCHANGED <<chunkVars, modelVars, seedVars, fitVars, procVars>>)
    \/ (Finish /\ UNCHANGED <<chunkVars, modelVars, seedVars, fitVars, procVars>>)

Spec == Init /\ [][Next]_vars

\* estimate_parameters runs in one thread and each statement of its body
\* returns: a call that is not interrupted keeps moving.
SpecLive ==
    /\ Spec
    /\ WF_estVars(LoopNext) /\ WF_estVars(SviStep) /\ WF_estVars(SchedStep)
    /\ WF_estVars(CheckAndReport) /\ WF_estVars(Finish)

NextChunk ==
    \/ (CallChunkIterator /\ UNCHANGED <<estVars, seedVars, fitVars, procVars>>)
    \/ (DirectNext /\ UNCHANGED <<estVars, seedVars, fitVars, procVars>>)
    \/ (CallIterativelyFit /\ UNCHANGED <<estVars, seedVars, fitVars, procVars>>)
    \/ (FitChunk /\ UNCHANGED <<estVars, seedVars, fitVars, procVars>>)
    \/ (ConcatenateChunks /\ UNCHANGED <<estVars, seedVars, fitVars, procVars>>)

SpecChunk == Init /\ [][NextChunk]_vars

NextModel ==
    \/ (Construct /\ UNCHANGED <<chunkVars, estVars, seedVars, fitVars, procVars>>)
    \/ (DoWithHyperparameters /\ UNCHANGED <<chunkVars, estVars, seedVars, fitVars, procVars>>)
    \/ (DoWithAmendedCoords /\ UNCHANGED <<chunkVars, estVars, seedVars, fitVars, procVars>>)
    \/ (DoCondition /\ UNCHANGED <<chunkVars, estVars, seedVars, fitVars, procVars>>)
    \/ (CallStructure /\ UNCHANGED <<chunkVars, estVars, seedVars, fitVars, procVars>>)
    \/ (CallModel /\ UNCHANGED <<chunkVars, estVars, seedVars, fitVars, procVars>>)

SpecModel == Init /\ [][NextModel]_vars

\* A process starts in an arbitrary random state.
InitSeed ==
    /\ EstIdle /\ ChunkIdle /\ ModelIdle /\ SeedIdle /\ FitIdle /\ ProcIdle
    /\ rng \in 0..(RngMod - 1)

NextSeed ==
    \/ (WorkflowSimulateWorld /\ UNCHANGED <<chunkVars, estVars, modelVars, fitVars, procVars>>)
    \/ (ModelSimulateWorld /\ UNCHANGED <<chunkVars, estVars, modelVars, fitVars, procVars>>)
    \/ (ModelSimulate /\ UNCHANGED <<chunkVars, estVars, modelVars, fitVars, procVars>>)
    \/ (EstimateSeeded /\ UNCHANGED <<chunkVars, estVars, modelVars, fitVars, procVars>>)
    \/ (OtherDraw /\ UNCHANGED <<chunkVars, estVars, modelVars, fitVars, procVars>>)

SpecSeed == InitSeed /\ [][NextSeed]_vars

NextFit ==
    CallFitMetagenotypeComplex
        /\ UNCHANGED <<chunkVars, estVars, modelVars, seedVars, procVars>>

SpecFit == Init /\ [][NextFit]_vars

NextCalls ==
    \/ (CallEstimateAgain /\ UNCHANGED <<chunkVars, modelVars, seedVars, fitVars>>)
    \/ (LoopNext /\ UNCHANGED <<chunkVars, modelVars, seedVars, fitVars, procVars>>)
    \/ (SviStep /\ UNCHANGED <<chunkVars, modelVars, seedVars, fitVars, procVars>>)
    \/ (SchedStep /\ UNCHANGED <<chunkVars, modelVars, seedVars, fitVars, procVars>>)
    \/ (CheckAndReport /\ UNCHANGED <<chunkVars, modelVars, seedVars, fitVars, procVars>>)
    \/ (Interrupt /\ UNCHANGED <<chunkVars, modelVars, seedVars, fitVars, procVars>>)
    \/ (Finish /\ UNCHANGED <<chunkVars, modelVars, seedVars, fitVars, procVars>>)
    \/ (EndCall /\ UNCHANGED <<chunkVars, modelVars, seedVars, fitVars>>)

SpecCalls == Init /\ [][NextCalls]_vars

\* =========================================================================
\* Properties
\* =========================================================================
\* The pairs cs are non-empty half-open intervals that follow one another
\* from 0 to total, each of length per except possibly a shorter last one of
\* length total - per * (total \div per).
IsPartition(cs, total, per) ==
    /\ Len(cs) >= 1
    /\ cs[1][1] = 0
    /\ cs[Len(cs)][2] = total
    /\ \A k \in 1..Len(cs) : cs[k][1] < cs[k][2]
    /\ \A k \in 1..(Len(cs) - 1) :
          cs[k][2] = cs[k + 1][1] /\ cs[k][2] - cs[k][1] = per
    /\ LET last == cs[Len(cs)][2] - cs[Len(cs)][1]
       IN last = per \/ (last = total - per * (total \div per) /\ last # 0)

\* C1: for every total >= 1 and per >= 1 the iterator ends normally and the
\* pairs it yielded partition [0, total) into chunks of length per, the last
\* one possibly shorter.
C1_ChunksPartition ==
    (caller = "direct" /\ gen.state # "running")
        => (gen.state = "exhausted" /\ IsPartition(chunks, gen.total, gen.per))

\* The chunks of P positions taken nposition at a time, in order.
ExpectedChunk(k, P, np) == <<np * (k - 1), Min(np * k, P)>>
NumChunks(P, np) == (P + np - 1) \div np

\* C8: the chunked fit makes its estimation calls one chunk after the other in
\* increasing position order, never trips over the iterator, and when it
\* returns it has made exactly one call per chunk, the concatenated genotype's
\* position coordinate is the metagenotype's, element for element, and
\* history_list has one entry per chunk.
C8_ChunkedFitCoversPositions ==
    caller = "workflow" =>
        LET P  == Len(wf.position)
            np == Min(wf.requested, P)
        IN /\ wf.error # "UnboundLocalError"
           /\ Len(wf.estCalls) <= NumChunks(P, np)
           /\ \A k \in 1..Len(wf.estCalls) :
                 wf.estCalls[k] = ExpectedChunk(k, P, np)
           /\ wf.pc = "returned" =>
                 /\ Len(wf.estCalls) = NumChunks(P, np)
                 /\ wf.genotype = wf.position
                 /\ Len(wf.history_list) = NumChunks(P, np)

\* C8 witness: a returned fit of five positions in three chunks, the last one
\* shorter.
C8_Witness ==
    /\ caller = "workflow"
    /\ wf.pc = "returned"
    /\ Len(wf.position) = 5
    /\ wf.requested = 2
    /\ wf.genotype = wf.position

C3_StopsWithinLagA ==
    /\ lrLowSince >= 0 => nsteps - lrLowSince <= args.lagA - 1
    /\ (pc = "for" /\ i >= 0 /\ i % args.lagA = 0)
          => ~LrLess(sched.lr, Lr(1, 1000000))
    /\ outcome = "Converged" =>
          /\ LrLess(sched.lr, Lr(1, 1000000))
          /\ i % args.lagA = 0
          /\ nsteps = i + 1

\* C3 witness: the converged exit, taken one step after the step at which the
\* learning rate fell below 1e-6.
C3_Witness ==
    /\ outcome = "Converged"
    /\ lrLowSince >= 0
    /\ nsteps = lrLowSince + 1

\* C3 as originally stated: no optimization step is taken after the step at
\* which the learning rate first fell below 1e-6.
C3_NoStepAfterLrLow ==
    lrLowSince >= 0 => nsteps = lrLowSince

\* Whether step k of the values fed to the scheduler improved on the best of
\* the steps before it, and the number of trailing steps that did not.
Improves(fed, k) ==
    ~fed[k].nan /\ \A j \in 1..(k - 1) : fed[j].nan \/ fed[k].v < fed[j].v
NonImprovingRun(fed) ==
    CHOOSE n \in 0..Len(fed) :
        /\ \A k \in (Len(fed) - n + 1)..Len(fed) : ~Improves(fed, k)
        /\ (n < Len(fed) => Improves(fed, Len(fed) - n))

\* C4: during a fit the learning rate changes only in scheduler.step, only by
\* the factor 0.5, only after at least `patience` (lagB) consecutive steps
\* without improvement on the best ELBO seen, and never within `cooldown`
\* (lagB) steps of the previous reduction.
C4_ReduceOnPlateau ==
    [][ (pc # "idle" /\ sched'.lr # sched.lr) =>
            /\ pc = "sched"
            /\ sched'.lr = LrMul(sched.lr, Lr(1, 2))
            /\ NonImprovingRun(Append(history, elbo.val)) >= args.lagB
            /\ reducedAt # <<>> =>
                  nsteps - reducedAt[Len(reducedAt)] > args.lagB ]_vars

\* C4 witness: with patience and cooldown 1, a reduction at the third step
\* (two steps without improvement) and the next one at the sixth (a cooldown
\* step, then two more without improvement).
C4_Witness ==
    /\ args.lagB = 1
    /\ reducedAt = <<3, 6>>
    /\ sched.lr = LrMul(LrMul(Lr(1, 10), Lr(1, 2)), Lr(1, 2))

\* C5: no call of condition, with_hyperparameters or with_amended_coords (nor
\* a construction) changes what any existing model's coords, hyperparameters
\* and data read as, nor the structure's default_hyperparameters, and the
\* model a derivation returns differs from its source only in the field the
\* derivation replaces.
C5_DerivationsArePure ==
    [][ /\ \A m \in 1..Len(models) :
              View(heap', models', m) = View(heap, models, m)
        /\ heap'[DefaultsRef] = heap[DefaultsRef]
        /\ (models' # models /\ lastOp'.src # 0) =>
              LET old == View(heap, models, lastOp'.src)
                  new == View(heap', models', lastOp'.new)
              IN /\ lastOp'.new = Len(models) + 1
                 /\ lastOp'.kind # "condition" => new.data = old.data
                 /\ lastOp'.kind # "with_hyperparameters" =>
                       new.hyperparameters = old.hyperparameters
                 /\ lastOp'.kind # "with_amended_coords" =>
                       new.coords = old.coords ]_vars

\* C5 witness: a model conditioned on new data out of a model that was itself
\* derived, whose data still reads as before.
C5_Witness ==
    /\ lastOp.kind = "condition"
    /\ lastOp.src >= 2
    /\ lastOp.new # 0
    /\ View(heap, models, lastOp.new).data # View(heap, models, lastOp.src).data

\* C6: an interrupt of the optimization loop ends the call in one of two ways:
\* the KeyboardInterrupt is re-raised (catch_keyboard_interrupt false), or it
\* is swallowed and the call goes on to return; no other error comes out of
\* the handler.
C6_InterruptTwoOutcomes ==
    outcome \in {"KeyboardInterrupt", "Interrupted", "UnboundLocalError"} =>
        IF args.catch_keyboard_interrupt
        THEN outcome = "Interrupted" /\ pc \in {"after", "returned"}
        ELSE outcome = "KeyboardInterrupt" /\ pc = "raised"

\* C7: two simulate_world calls (the workflow's or the model's) with the same
\* explicit seed return the same World, and two estimate_parameters calls with
\* the same explicit seed start from the same random state.
C7_SeedReproducible ==
    /\ \A a, b \in 1..Len(simLog) :
          ( /\ simLog[a].via \in {"workflow.simulate_world", "model.simulate_world"}
            /\ simLog[b].via \in {"workflow.simulate_world", "model.simulate_world"}
            /\ simLog[a].seed # NoSeed
            /\ simLog[a].seed = simLog[b].seed )
          => simLog[a].world = simLog[b].world
    /\ \A a, b \in 1..Len(estLog) :
          (estLog[a].seed # NoSeed /\ estLog[a].seed = estLog[b].seed)
          => estLog[a].start = estLog[b].start

\* C9: when the NMF warm start (if any) succeeded and the caller's
\* estimation_kwargs are parameters of estimate_parameters that the workflow
\* does not pass itself, fit_metagenotype_complex conditions the model, passes
\* only keywords estimate_parameters accepts, calls it exactly once, and when
\* that call returns, returns with est_list and history_list of length one.
C9_FitCallsEstimateOnce ==
    ( /\ fit.pc # "none"
      /\ fit.error # "NMFError"
      /\ fit.estimation_kwargs \subseteq EstimateParametersKeywords
      /\ fit.estimation_kwargs \cap (FitExplicitKeywords \cup {"model"}) = {} )
    => /\ fit.conditioned
       /\ fit.passed \subseteq EstimateParametersKeywords
       /\ fit.estimate_calls = 1
       /\ fit.pc = "returned" => (fit.est_list = 1 /\ fit.history_list = 1)

\* C10: Structure.__call__ fails on the shape-length check, without invoking
\* the generative function, exactly when len(shape) differs from len(dims).
C10_ShapeLengthChecked ==
    lastCall.by # "none" =>
        IF Len(lastCall.shape) # Len(StructureDims)
        THEN lastCall.error = "AssertionError" /\ ~lastCall.invoked
        ELSE lastCall.error # "AssertionError"

\* C10 witness: a direct call with one axis too many, refused.
C10_Witness ==
    /\ lastCall.by = "direct"
    /\ Len(lastCall.shape) = Len(StructureDims) + 1
    /\ lastCall.error = "AssertionError"

\* -------------------------------------------------------------------- C11
Returned == pc = "returned"
Raised == pc = "raised"

\* How an ended call is classified, and what its history holds.
C11_Classified ==
    /\ nsteps <= args.maxiter
    /\ Len(history) <= nsteps
    /\ Returned => /\ outcome \in {"Converged", "Exhausted", "Interrupted"}
                   /\ outcome = "Converged" =>
                         /\ LrLess(sched.lr, Lr(1, ThresholdDen))
                         /\ Len(history) = nsteps
                   /\ outcome = "Exhausted" =>
                         /\ nsteps = args.maxiter
                         /\ Len(history) = nsteps
                   /\ outcome = "Interrupted" =>
                         /\ args.catch_keyboard_interrupt
                         /\ Len(history) \in {nsteps - 1, nsteps}
    /\ Raised => /\ outcome \in {"RuntimeError", "KeyboardInterrupt",
                                  "UnboundLocalError"}
                 /\ outcome = "RuntimeError" => elbo.bound /\ elbo.val.nan
                 /\ outcome = "KeyboardInterrupt" =>
                         ~args.catch_keyboard_interrupt /\ elbo.bound
                 /\ outcome = "UnboundLocalError" => nsteps = 0
    /\ pc \in {"idle", "for", "svi", "sched", "check"} => outcome = "none"

\* history grows only by the ELBO of the step just completed.
C11_AppendsInStepOrder ==
    history' # history =>
        \/ history' = <<>>
        \/ /\ history' = Append(history, elbo.val)
           /\ Len(history') = nsteps
           /\ ~elbo.val.nan

GuideJustBuilt == pc = "for" /\ i = -1

\* C12: in any sequence of estimate_parameters calls in one process, also
\* after a call that failed on NaN or was interrupted, the parameter store is
\* empty when a call builds its posterior approximation: nothing an earlier
\* fit wrote is visible to a later one.
C12_StoreEmptyAtGuide == GuideJustBuilt => param_store = {}

\* A call that follows a fit which failed on a NaN ELBO and left its
\* parameter in the store: the new call has built its guide on an empty store.
C12_Witness ==
    /\ prev.outcome = "RuntimeError"
    /\ prev.store # {}
    /\ GuideJustBuilt
    /\ param_store = {}

\* -------------------------------------------------------------------- C13
\* C13: optimizer settings do not leak between fits.  After any earlier calls
\* with any optimizer_kwargs, a call that passes optimizer_kwargs=None builds
\* its optimizer with the default learning rate 0.1 and no other option: the
\* module-level OPTIMIZERS defaults are as they were at import.
C13_NoneStartsAtDefaults ==
    (GuideJustBuilt /\ ~args.optimizer_kwargs.given) =>
        /\ OPTIMIZERS[args.optimizer_name] = OptimizersAtImport[args.optimizer_name]
        /\ sched.lr = Lr(1, DefaultLrDen)

\* -------------------------------------------------------------------- C14
\* C14: every ParameterizedModel made by a successful construction followed by
\* any condition / with_hyperparameters / with_amended_coords calls, also
\* amendments that name a dimension the structure does not have, has exactly
\* the structure's dims as the keys of coords; its sizes and shape follow the
\* structure's dimension order and the shape is as long as the dims, so that
\* invoking a model never fails Structure.__call__'s shape-length check.
C14_CoordsMatchDims ==
    /\ \A m \in 1..Len(models) :
          /\ DOMAIN heap[models[m].coords] = DimSet
          /\ Len(Shape(heap, models, m)) = Len(StructureDims)
          /\ \A d \in 1..Len(StructureDims) :
                /\ SizesItems(heap, models, m)[d][1] = StructureDims[d]
                /\ SizesItems(heap, models, m)[d][2] = Shape(heap, models, m)[d]
                /\ Sizes(heap, models, m)[StructureDims[d]] =
                       Shape(heap, models, m)[d]
    /\ lastCall.by = "model" => lastCall.error = "none" /\ lastCall.invoked

\* A model made by with_amended_coords(extra=1), a dimension the structure
\* does not have: the amended dict holds "extra", the new model's coords do
\* not, and a model has been invoked without failing the shape-length assertion.
C14_Witness ==
    /\ lastOp.kind = "with_amended_coords"
    /\ lastOp.err = "none"
    /\ lastOp.new \in 1..Len(models)
    /\ \E r \in 1..Len(heap) : "extra" \in DOMAIN heap[r]
    /\ DOMAIN heap[models[lastOp.new].coords] = DimSet
    /\ lastCall.by = "model"
    /\ lastCall.invoked

====
